---- MODULE Spec2Model ----
(***************************************************************************)
(* Equipment communication layer of AnaliNet.                              *)
(*                                                                         *)
(*   services/equipment_interface.py  EquipmentManager and the transports  *)
(*   services/result_handler.py       ResultHandler and its listener loop  *)
(*   services/result_processor.py     ResultProcessorFactory               *)
(*   api/endpoints/equipment.py       the FastAPI endpoints                *)
(*                                                                         *)
(* Everything runs on one asyncio event loop.  A coroutine gives the loop  *)
(* up only where it awaits something that really suspends: the two         *)
(* asyncio.sleep calls of the listener.  The transports' connect,          *)
(* disconnect, send_command and receive_data are "async def" bodies made   *)
(* of blocking calls only, so every service method below runs from its     *)
(* first line to its return as one step.  A FastAPI background task runs   *)
(* after the response of its request was sent, so other steps fall between *)
(* an endpoint body and its background task.                               *)
(***************************************************************************)
EXTENDS Integers, Sequences, FiniteSets, TLC

\* ---------------------------------------------------------------- bounds
MaxInterfaces == 2      \* transport objects open at the same time
MaxBackground == 1      \* background tasks queued and not yet run
MaxTasks      == 2      \* listener tasks that asyncio.create_task may create

EquipmentIds == {1, 2}
InterfaceIds == 1..MaxInterfaces
TaskIds      == 1..MaxTasks
None         == 0

\* ------------------------------------------------- models/equipment.py
ProtocolType ==
  {"HL7", "ASTM", "DICOM", "POCT1-A", "LIS2-A2", "MODBUS", "IHE-PCD",
   "HL7-FHIR", "ISO-11073", "PROPRIETARY"}

ConnectionType ==
  {"NETWORK", "DB25", "USB", "RS232", "RS485", "BLUETOOTH", "ETHERNET", "WIFI"}

CommunicationType ==
  {"UNIDIRECTIONAL", "BIDIRECTIONAL", "BIDIRECTIONAL_WITH_ACK"}

\* The columns of an Equipment row that the communication layer reads.
\* result_endpoint is TRUE when the nullable column holds a URL;
\* polling_interval is TRUE when the nullable column holds a positive number
\* of seconds (None and 0 are both false in "if equipment.polling_interval").
Equipment(p, c, m, ep, poll) ==
  [protocol |-> p, connection_type |-> c, communication_type |-> m,
   result_endpoint |-> ep, polling_interval |-> poll]

NoRow == Equipment("", "", "", FALSE, FALSE)

\* The equipment tables the program is started on: rows of every
\* communication type, with and without a result processor, and a missing row.
EquipmentTables ==
  { <<Equipment("HL7",      "NETWORK", "UNIDIRECTIONAL",         FALSE, FALSE),
      Equipment("ASTM",     "DB25",    "BIDIRECTIONAL_WITH_ACK", FALSE, TRUE)>>,
    <<Equipment("HL7-FHIR", "NETWORK", "BIDIRECTIONAL",          TRUE,  TRUE),
      Equipment("ASTM",     "NETWORK", "UNIDIRECTIONAL",         FALSE, FALSE)>>,
    <<Equipment("DICOM",    "RS232",   "BIDIRECTIONAL",          FALSE, FALSE),
      NoRow>> }

\* The config dictionary connect_equipment is called with for an id that
\* has no row.
DefaultConfig == [connection_type |-> "DB25", protocol |-> "HL7"]

\* --------------------------------------------------------------- state
VARIABLES
  db,                  \* the equipment table: id -> row, NoRow when absent
  active_connections,  \* EquipmentManager.active_connections: id -> interface
  interfaces,          \* the transport objects: kind, protocol, link status
  handler,             \* the ResultHandler a caller of the services keeps:
                       \* whether it is constructed, and its _active_listeners
  tasks,               \* the asyncio tasks running _listen_for_results
  background,          \* BackgroundTasks of answered requests, not yet run:
                       \* how many of each (function, equipment id)
  lastCall,            \* what the most recent call did and returned
  transport,           \* per equipment, the messages its instrument has sent
                       \* and the program has not yet read from the link
  session,             \* the rows added to the handler's database session
                       \* and not yet committed
  store,               \* the committed rows of the test_results table
  log,                 \* the steps the listener loops performed, in order
  codec                \* the last call of a result processor: its input
                       \* and what it returned

vars == <<db, active_connections, interfaces, handler, tasks,
          background, lastCall, transport, session, store, log, codec>>

\* what the connection and listener bookkeeping never touches
ingestVars == <<transport, session, store, log, codec>>

NoInterface == [status |-> "unused", kind |-> "", protocol |-> ""]
NoTask      == [pc |-> "unused", equipment |-> None, cancel |-> FALSE,
                exit |-> ""]
\* ResultHandler.__init__: an empty _active_listeners
NoListeners == [e \in EquipmentIds |-> None]
NoHandler   == [constructed |-> FALSE, active_listeners |-> NoListeners]
BgTasks     == {"start_listening", "stop_listening"} \X EquipmentIds

\* lowest unused identifiers; None when the bound is exhausted
FreeInterface ==
  IF \E i \in InterfaceIds : interfaces[i].status = "unused"
  THEN CHOOSE i \in InterfaceIds :
         /\ interfaces[i].status = "unused"
         /\ \A j \in InterfaceIds : interfaces[j].status = "unused" => i <= j
  ELSE None

FreeTask ==
  IF \E t \in TaskIds : tasks[t].pc = "unused"
  THEN CHOOSE t \in TaskIds :
         /\ tasks[t].pc = "unused"
         /\ \A u \in TaskIds : tasks[u].pc = "unused" => t <= u
  ELSE None

\* The outcome of a call: exception raised ("" when none), value returned,
\* and the transport and helper operations it performed, in order.
Outcome(raised, ret, trace) ==
  [raised |-> raised, ret |-> ret, trace |-> trace]

\* A finished call: the service method, who called it ("caller", "endpoint"
\* or "background"), its equipment id and handler, the registry entry and
\* the handler's listener entry of that id before the call, the outcome, and
\* the HTTP status when an endpoint made the call.
Call(op, via, e, before, listener, out, http) ==
  [op |-> op, via |-> via, e |-> e, before |-> before,
   listener |-> listener, raised |-> out.raised, ret |-> out.ret,
   trace |-> out.trace, http |-> http]

NoCall == Call("", "", None, None, None, Outcome("", "", <<>>), 0)

\* ------------------------------------- services/equipment_interface.py
\* NetworkEquipment.connect / SerialEquipment.connect: open the link or
\* log and re-raise.
NetworkEquipment_connect(ok) ==
  IF ok THEN Outcome("", "None", <<"connect", "connected">>)
        ELSE Outcome("ConnectionError", "", <<"connect", "failed">>)

SerialEquipment_connect(ok) ==
  IF ok THEN Outcome("", "None", <<"connect", "connected">>)
        ELSE Outcome("SerialException", "", <<"connect", "failed">>)

\* NetworkEquipment.disconnect as it would be if the exception of close()
\* were re-raised like the one of connect().
NetworkEquipment_disconnect_reraising(ok) ==
  [raised |-> IF ok THEN "" ELSE "OSError",
   status |-> IF ok THEN "closed" ELSE "close_failed"]

\* NetworkEquipment.disconnect / SerialEquipment.disconnect: close the
\* link; an exception of close() is logged and not re-raised.
NetworkEquipment_disconnect(ok) ==
  [raised |-> "", status |-> IF ok THEN "closed" ELSE "close_failed"]

SerialEquipment_disconnect(ok) ==
  [raised |-> "", status |-> IF ok THEN "closed" ELSE "close_failed"]

Interface_connect(kind, ok) ==
  IF kind = "NetworkEquipment" THEN NetworkEquipment_connect(ok)
                               ELSE SerialEquipment_connect(ok)

Interface_disconnect(kind, ok) ==
  IF kind = "NetworkEquipment" THEN NetworkEquipment_disconnect(ok)
                               ELSE SerialEquipment_disconnect(ok)

\* EquipmentManager.connect_equipment, lines 147-161: NETWORK selects the
\* network transport, every other connection type the serial one.
InterfaceKind(config) ==
  IF config.connection_type = "NETWORK" THEN "NetworkEquipment"
                                        ELSE "SerialEquipment"

\* connect_equipment as it would be if it registered the interface before
\* connecting it.
connect_equipment_registering_first(equipment_id, config, ok) ==
  LET i == FreeInterface
      c == Interface_connect(InterfaceKind(config), ok)
  IN [out   |-> Outcome(c.raised, IF c.raised = "" THEN "interface" ELSE "",
                        c.trace),
      conns |-> [active_connections EXCEPT ![equipment_id] = i],
      ifs   |-> [interfaces EXCEPT ![i] =
                   [status |-> "open", kind |-> InterfaceKind(config),
                    protocol |-> config.protocol]]]

\* EquipmentManager.connect_equipment: construct the interface, connect it,
\* store it under equipment_id, return it; on an exception log and re-raise.
\* The result carries the manager's state after the call.
connect_equipment(equipment_id, config, ok) ==
  LET i == FreeInterface
      c == Interface_connect(InterfaceKind(config), ok)
  IN IF c.raised = ""
     THEN [out   |-> Outcome("", "interface", c.trace),
           conns |-> [active_connections EXCEPT ![equipment_id] = i],
           ifs   |-> [interfaces EXCEPT ![i] =
                        [status |-> "open", kind |-> InterfaceKind(config),
                         protocol |-> config.protocol]]]
     ELSE [out   |-> Outcome(c.raised, "", c.trace),
           conns |-> active_connections,
           ifs   |-> interfaces]

\* EquipmentManager.disconnect_equipment: when the id is registered,
\* disconnect its interface and delete the entry; an exception is logged
\* and re-raised (the delete is then skipped).  The deleted entry was the
\* manager's only reference to the interface, which leaves the model.
disconnect_equipment(equipment_id, ok) ==
  LET i == active_connections[equipment_id]
  IN IF i = None
     THEN [out |-> Outcome("", "None", <<>>),
           conns |-> active_connections, ifs |-> interfaces]
     ELSE LET d == Interface_disconnect(interfaces[i].kind, ok)
          IN IF d.raised = ""
             THEN [out   |-> Outcome("", "None", <<"disconnect", d.status>>),
                   conns |-> [active_connections EXCEPT ![equipment_id] = None],
                   ifs   |-> [interfaces EXCEPT ![i] = NoInterface]]
             ELSE [out   |-> Outcome(d.raised, "", <<"disconnect", d.status>>),
                   conns |-> active_connections,
                   ifs   |-> interfaces]

\* NetworkEquipment.send_command: for HL7 parse the command and let the MLLP
\* client send it and read the reply; otherwise sendall and receive_data.
\* fault names the step at which the link fails, "none" when it does not.
NetworkEquipment_send_command(protocol, fault) ==
  IF protocol = "HL7"
  THEN CASE fault = "parse" -> Outcome("ParseException", "", <<"parse">>)
         [] fault = "send"  -> Outcome("TransportError", "", <<"parse", "send">>)
         [] fault = "recv"  -> Outcome("TransportError", "",
                                       <<"parse", "send", "recv">>)
         [] OTHER           -> Outcome("", "response",
                                       <<"parse", "send", "recv">>)
  ELSE CASE fault = "send"  -> Outcome("TransportError", "", <<"send">>)
         [] fault = "recv"  -> Outcome("TransportError", "", <<"send", "recv">>)
         [] OTHER           -> Outcome("", "response", <<"send", "recv">>)

\* SerialEquipment.send_command: for ASTM wrap the command in STX .. ETX CR
\* LF, write it, then receive_data.
SerialEquipment_send_command(protocol, fault) ==
  LET framing == IF protocol = "ASTM" THEN <<"frame">> ELSE <<>>
  IN CASE fault = "send" -> Outcome("TransportError", "", framing \o <<"send">>)
       [] fault = "recv" -> Outcome("TransportError", "",
                                    framing \o <<"send", "recv">>)
       [] OTHER          -> Outcome("", "response",
                                    framing \o <<"send", "recv">>)

Interface_send_command(iface, fault) ==
  IF iface.kind = "NetworkEquipment"
  THEN NetworkEquipment_send_command(iface.protocol, fault)
  ELSE SerialEquipment_send_command(iface.protocol, fault)

\* The steps at which a send_command on this interface can fail.
SendFaults(iface) ==
  IF iface.kind = "NetworkEquipment" /\ iface.protocol = "HL7"
  THEN {"none", "parse", "send", "recv"}
  ELSE {"none", "send", "recv"}

\* send_command_to_equipment as it would be if an unregistered id were
\* answered with an empty response instead of an exception.
send_command_to_equipment_lenient(equipment_id, fault) ==
  IF active_connections[equipment_id] = None
  THEN Outcome("", "", <<>>)
  ELSE Interface_send_command(interfaces[active_connections[equipment_id]],
                              fault)

\* EquipmentManager.send_command_to_equipment: ValueError when the id is
\* not registered, otherwise the interface's send_command; every exception
\* is logged and re-raised.
send_command_to_equipment(equipment_id, fault) ==
  IF active_connections[equipment_id] = None
  THEN Outcome("ValueError", "", <<>>)
  ELSE Interface_send_command(interfaces[active_connections[equipment_id]],
                              fault)

\* The listener calls equipment_manager.receive_data_from_equipment
\* (result_handler.py line 56); EquipmentManager defines connect_equipment,
\* disconnect_equipment and send_command_to_equipment only, so the attribute
\* lookup raises before any transport is touched.
receive_data_from_equipment(equipment_id) ==
  Outcome("AttributeError", "", <<>>)

\* --------------------------------------- services/result_processor.py
\* ResultProcessorFactory.create_processor
create_processor(protocol, communication_type, endpoint) ==
  CASE protocol = "HL7"      -> Outcome("", "HL7ResultProcessor", <<>>)
    [] protocol = "ASTM"     -> Outcome("", "ASTMResultProcessor", <<>>)
    [] protocol = "HL7-FHIR" ->
         IF ~endpoint THEN Outcome("ValueError", "", <<>>)
                      ELSE Outcome("", "HL7FHIRResultProcessor", <<>>)
    [] OTHER                 -> Outcome("ValueError", "", <<>>)

\* ----------------------------------------- services/result_handler.py
\* start_listening as it would be without the "already listening" test of
\* lines 25-27.
start_listening_unguarded(table, equipment_id) ==
  LET equipment == db[equipment_id]
      processor == create_processor(equipment.protocol,
                                    equipment.communication_type,
                                    equipment.result_endpoint)
      task      == FreeTask
      same      == [out |-> Outcome("", "None", <<>>),
                    table |-> table, tasks |-> tasks]
  IN CASE equipment = NoRow ->
            [same EXCEPT !.out = Outcome("ValueError", "", <<>>)]
       [] equipment # NoRow /\ processor.raised # "" ->
            [same EXCEPT !.out = Outcome(processor.raised, "", <<>>)]
       [] OTHER ->
            [out   |-> Outcome("", "None", <<"create_task">>),
             table |-> [table EXCEPT ![equipment_id] = task],
             tasks |-> [tasks EXCEPT ![task] =
                          [pc |-> "created", equipment |-> equipment_id,
                           cancel |-> FALSE, exit |-> ""]]]

\* ResultHandler.start_listening on a handler whose _active_listeners is
\* table: ValueError when the equipment row does not exist; a warning and a
\* plain return when the id is already in the table; otherwise create the
\* processor (which may raise), create the listener task and record it.
start_listening(table, equipment_id) ==
  LET equipment == db[equipment_id]
      processor == create_processor(equipment.protocol,
                                    equipment.communication_type,
                                    equipment.result_endpoint)
      task      == FreeTask
      same      == [out |-> Outcome("", "None", <<>>),
                    table |-> table, tasks |-> tasks]
  IN CASE equipment = NoRow ->
            [same EXCEPT !.out = Outcome("ValueError", "", <<>>)]
       [] equipment # NoRow /\ table[equipment_id] # None ->
            [same EXCEPT !.out = Outcome("", "None", <<"warning">>)]
       [] equipment # NoRow /\ table[equipment_id] = None
          /\ processor.raised # "" ->
            [same EXCEPT !.out = Outcome(processor.raised, "", <<>>)]
       [] OTHER ->
            [out   |-> Outcome("", "None", <<"create_task">>),
             table |-> [table EXCEPT ![equipment_id] = task],
             tasks |-> [tasks EXCEPT ![task] =
                          [pc |-> "created", equipment |-> equipment_id,
                           cancel |-> FALSE, exit |-> ""]]]

\* TRUE when start_listening(table, equipment_id) reaches asyncio.create_task
CreatesTask(table, equipment_id) ==
  /\ db[equipment_id] # NoRow
  /\ table[equipment_id] = None
  /\ create_processor(db[equipment_id].protocol,
                      db[equipment_id].communication_type,
                      db[equipment_id].result_endpoint).raised = ""

\* Task.cancel(): a request that the task observes when it next runs; no
\* effect on a task that is done.
Cancel(task) ==
  IF task.pc = "done" THEN task ELSE [task EXCEPT !.cancel = TRUE]

\* ResultHandler.stop_listening on a handler whose _active_listeners is
\* table: when the id is in the table, cancel the task and delete the entry;
\* the task is not awaited.
stop_listening(table, equipment_id) ==
  LET task == table[equipment_id]
  IN IF task # None
     THEN [out   |-> Outcome("", "None", <<"cancel">>),
           table |-> [table EXCEPT ![equipment_id] = None],
           tasks |-> [tasks EXCEPT ![task] = Cancel(tasks[task])]]
     ELSE [out |-> Outcome("", "None", <<>>),
           table |-> table, tasks |-> tasks]

\* _listen_for_results as it would be without the outer
\* "except asyncio.CancelledError" of lines 76-77: the exception thrown into
\* the sleeping coroutine leaves it.
listen_for_results_unhandled(task) ==
  CASE task.cancel /\ task.pc = "created" ->
         [task EXCEPT !.pc = "done", !.cancel = FALSE, !.exit = "cancelled"]
    [] task.cancel /\ task.pc # "created" ->
         [task EXCEPT !.pc = "done", !.cancel = FALSE,
                      !.exit = "CancelledError"]
    [] OTHER ->
         IF receive_data_from_equipment(task.equipment).raised # ""
         THEN [task EXCEPT !.pc = "backoff"]
         ELSE [task EXCEPT !.pc = "receive"]

\* ResultHandler._listen_for_results, one run of the task between two
\* suspensions.  A task cancelled before its first run never enters the
\* coroutine: it ends cancelled, and no line of the coroutine has run.
\* A task cancelled while suspended in asyncio.sleep gets CancelledError at
\* that await; "except Exception" does not catch it, the outer
\* "except asyncio.CancelledError" does, and the coroutine returns.
\* Otherwise the run is one pass of the loop body: the receive raises, the
\* inner handler logs and suspends in asyncio.sleep(5).
listen_for_results(task) ==
  CASE task.cancel /\ task.pc = "created" ->
         [task EXCEPT !.pc = "done", !.cancel = FALSE, !.exit = "cancelled"]
    [] task.cancel /\ task.pc # "created" ->
         [task EXCEPT !.pc = "done", !.cancel = FALSE, !.exit = "returned"]
    [] OTHER ->
         IF receive_data_from_equipment(task.equipment).raised # ""
         THEN [task EXCEPT !.pc = "backoff"]
         ELSE [task EXCEPT !.pc = "receive"]

\* ResultHandler._build_request_command: the module uses json.dumps for
\* HL7-FHIR without importing json.
build_request_command(protocol) ==
  CASE protocol = "HL7"      -> Outcome("", "QRY^R02", <<>>)
    [] protocol = "ASTM"     -> Outcome("", "Q", <<>>)
    [] protocol = "HL7-FHIR" -> Outcome("NameError", "", <<>>)
    [] OTHER                 -> Outcome("ValueError", "", <<>>)

\* request_results as it would be without the communication type test of
\* lines 114-115.
request_results_any_direction(equipment_id, fault) ==
  LET equipment == db[equipment_id]
      command   == build_request_command(equipment.protocol)
      sent      == send_command_to_equipment(equipment_id, fault)
  IN CASE equipment = NoRow ->
            Outcome("ValueError", "", <<>>)
       [] equipment # NoRow /\ command.raised # "" ->
            Outcome("", "False", <<"_build_request_command">>)
       [] OTHER ->
            Outcome("", IF sent.raised = "" THEN "True" ELSE "False",
                    <<"_build_request_command", "send_command_to_equipment">>
                      \o sent.trace)

\* ResultHandler.request_results: ValueError for an unknown or a
\* unidirectional equipment; otherwise build the command and send it,
\* returning True, or False when either step raised.  It reads nothing of
\* the handler but db and equipment_manager.
request_results(equipment_id, fault) ==
  LET equipment == db[equipment_id]
      command   == build_request_command(equipment.protocol)
      sent      == send_command_to_equipment(equipment_id, fault)
  IN CASE equipment = NoRow ->
            Outcome("ValueError", "", <<>>)
       [] equipment # NoRow
          /\ equipment.communication_type = "UNIDIRECTIONAL" ->
            Outcome("ValueError", "", <<>>)
       [] equipment # NoRow
          /\ equipment.communication_type # "UNIDIRECTIONAL"
          /\ command.raised # "" ->
            Outcome("", "False", <<"_build_request_command">>)
       [] OTHER ->
            Outcome("", IF sent.raised = "" THEN "True" ELSE "False",
                    <<"_build_request_command", "send_command_to_equipment">>
                      \o sent.trace)

\* ------------------------------------------------------------- actions
Init ==
  /\ db \in EquipmentTables
  /\ active_connections = [e \in EquipmentIds |-> None]
  /\ interfaces = [i \in InterfaceIds |-> NoInterface]
  /\ handler = NoHandler
  /\ tasks = [t \in TaskIds |-> NoTask]
  /\ background = [b \in BgTasks |-> 0]
  /\ lastCall = NoCall
  /\ transport = [e \in EquipmentIds |-> <<>>]
  /\ session = <<>>
  /\ store = <<>>
  /\ log = <<>>
  /\ codec = [op |-> "", kind |-> "", raw |-> <<>>, out |-> <<>>]

\* The config dictionary the connect endpoint builds from the row.
ConfigOf(equipment) ==
  IF equipment = NoRow THEN DefaultConfig
  ELSE [connection_type |-> equipment.connection_type,
        protocol |-> equipment.protocol]

\* ResultHandler.__init__ by a caller of the services, who keeps the handler.
ResultHandlerInit ==
  /\ UNCHANGED ingestVars
  /\ ~handler.constructed
  /\ handler' = [handler EXCEPT !.constructed = TRUE]
  /\ UNCHANGED <<db, active_connections, interfaces, tasks,
                 background, lastCall>>

CallConnect(e, ok) ==
  /\ UNCHANGED ingestVars
  /\ FreeInterface # None
  /\ LET r == connect_equipment(e, ConfigOf(db[e]), ok)
     IN /\ active_connections' = r.conns
        /\ interfaces' = r.ifs
        /\ lastCall' = Call("connect_equipment", "caller", e,
                            active_connections[e], None, r.out, 0)
  /\ UNCHANGED <<db, handler, tasks, background>>

CallDisconnect(e, ok) ==
  /\ UNCHANGED ingestVars
  /\ LET r == disconnect_equipment(e, ok)
     IN /\ active_connections' = r.conns
        /\ interfaces' = r.ifs
        /\ lastCall' = Call("disconnect_equipment", "caller", e,
                            active_connections[e], None, r.out, 0)
  /\ UNCHANGED <<db, handler, tasks, background>>

CallStartListening(e) ==
  /\ UNCHANGED ingestVars
  /\ handler.constructed
  /\ CreatesTask(handler.active_listeners, e) => FreeTask # None
  /\ LET r == start_listening(handler.active_listeners, e)
     IN /\ handler' = [handler EXCEPT !.active_listeners = r.table]
        /\ tasks' = r.tasks
        /\ lastCall' = Call("start_listening", "caller", e, None,
                            handler.active_listeners[e], r.out, 0)
  /\ UNCHANGED <<db, active_connections, interfaces, background>>

CallStopListening(e) ==
  /\ UNCHANGED ingestVars
  /\ handler.constructed
  /\ LET r == stop_listening(handler.active_listeners, e)
     IN /\ handler' = [handler EXCEPT !.active_listeners = r.table]
        /\ tasks' = r.tasks
        /\ lastCall' = Call("stop_listening", "caller", e, None,
                            handler.active_listeners[e], r.out, 0)
  /\ UNCHANGED <<db, active_connections, interfaces, background>>

\* A caller awaits stop_listening and then disconnect_equipment.  Neither
\* suspends, so no other task runs between the two calls or inside them.
\* The recorded outcome is the first exception and both traces.
CallStopThenDisconnect(e, ok) ==
  /\ UNCHANGED ingestVars
  /\ handler.constructed
  /\ LET s == stop_listening(handler.active_listeners, e)
         d == disconnect_equipment(e, ok)
     IN /\ handler' = [handler EXCEPT !.active_listeners = s.table]
        /\ tasks' = s.tasks
        /\ active_connections' = d.conns
        /\ interfaces' = d.ifs
        /\ lastCall' = Call("stop_listening;disconnect_equipment", "caller",
                            e, active_connections[e],
                            handler.active_listeners[e],
                            Outcome(IF s.out.raised # "" THEN s.out.raised
                                                         ELSE d.out.raised,
                                    "None", s.out.trace \o d.out.trace), 0)
  /\ UNCHANGED <<db, background>>

\* The event loop runs a listener task that is ready: a new one, one whose
\* sleep elapsed, or one with a cancellation to deliver.
RunTask(t) ==
  /\ UNCHANGED ingestVars
  /\ tasks[t].pc \in {"created", "backoff"}
  /\ tasks' = [tasks EXCEPT ![t] = listen_for_results(tasks[t])]
  /\ UNCHANGED <<db, active_connections, interfaces, handler, background,
                 lastCall>>

\* ------------------------------------------ api/endpoints/equipment.py
Queued == background[<<"start_listening", 1>>] + background[<<"start_listening", 2>>]
          + background[<<"stop_listening", 1>>] + background[<<"stop_listening", 2>>]

\* POST /{equipment_id}/connect: 404 without a row; otherwise connect, then
\* construct a ResultHandler and queue its start_listening as a background
\* task; any exception becomes a 500.
ApiConnect(e, ok) ==
  IF db[e] = NoRow
  THEN /\ lastCall' = Call("", "endpoint", e, active_connections[e], None,
                           Outcome("HTTPException", "", <<>>), 404)
       /\ UNCHANGED <<db, active_connections, interfaces, handler, tasks,
                      background>>
       /\ UNCHANGED ingestVars
  ELSE /\ FreeInterface # None
       /\ Queued < MaxBackground
       /\ LET r == connect_equipment(e, ConfigOf(db[e]), ok)
          IN /\ active_connections' = r.conns
             /\ interfaces' = r.ifs
             /\ IF r.out.raised = ""
                THEN /\ background' =
                          [background EXCEPT ![<<"start_listening", e>>] = @ + 1]
                     /\ lastCall' = Call("connect_equipment", "endpoint", e,
                                         active_connections[e], None,
                                         r.out, 200)
                ELSE /\ UNCHANGED background
                     /\ lastCall' = Call("connect_equipment", "endpoint", e,
                                         active_connections[e], None,
                                         r.out, 500)
       /\ UNCHANGED <<db, handler, tasks>>
       /\ UNCHANGED ingestVars

\* POST /{equipment_id}/disconnect: construct a ResultHandler, queue its
\* stop_listening as a background task, then disconnect the equipment in
\* the endpoint body; any exception becomes a 500.
ApiDisconnect(e, ok) ==
  /\ UNCHANGED ingestVars
  /\ Queued < MaxBackground
  /\ LET r == disconnect_equipment(e, ok)
     IN /\ background' =
             [background EXCEPT ![<<"stop_listening", e>>] = @ + 1]
        /\ active_connections' = r.conns
        /\ interfaces' = r.ifs
        /\ lastCall' = Call("disconnect_equipment", "endpoint", e,
                            active_connections[e], None, r.out,
                            IF r.out.raised = "" THEN 200 ELSE 500)
  /\ UNCHANGED <<db, handler, tasks>>

FaultsFor(e) ==
  IF active_connections[e] = None THEN {"none"}
  ELSE SendFaults(interfaces[active_connections[e]])

\* POST /{equipment_id}/command: send_command_to_equipment; ValueError
\* becomes a 400, any other exception a 500.
ApiSendCommand(e, fault) ==
  /\ UNCHANGED ingestVars
  /\ fault \in FaultsFor(e)
  /\ LET out == send_command_to_equipment(e, fault)
     IN lastCall' = Call("send_command_to_equipment", "endpoint", e,
                         active_connections[e], None, out,
                         CASE out.raised = ""           -> 200
                           [] out.raised = "ValueError" -> 400
                           [] OTHER                     -> 500)
  /\ UNCHANGED <<db, active_connections, interfaces, handler, tasks, background>>

\* POST /{equipment_id}/request-results: request_results of a ResultHandler
\* constructed for this request; ValueError becomes a 400, a False result
\* a 500.
ApiRequestResults(e, fault) ==
  /\ UNCHANGED ingestVars
  /\ fault \in FaultsFor(e)
  /\ LET out == request_results(e, fault)
     IN lastCall' = Call("request_results", "endpoint", e,
                         active_connections[e], None, out,
                         CASE out.raised = "ValueError"           -> 400
                           [] out.raised = "" /\ out.ret = "True" -> 200
                           [] OTHER                               -> 500)
  /\ UNCHANGED <<db, active_connections, interfaces, handler, tasks, background>>

\* A queued background task runs start_listening or stop_listening on the
\* ResultHandler its endpoint constructed for the request (lines 113 and
\* 129): a handler with an empty _active_listeners, which nothing refers to
\* afterwards.  A listener task it created stays scheduled on the event loop.
RunBackground(fn, e) ==
  /\ UNCHANGED ingestVars
  /\ background[<<fn, e>>] > 0
  /\ (fn = "start_listening" /\ CreatesTask(NoListeners, e)) => FreeTask # None
  /\ LET r == IF fn = "start_listening" THEN start_listening(NoListeners, e)
                                        ELSE stop_listening(NoListeners, e)
     IN /\ tasks' = r.tasks
        /\ lastCall' = Call(fn, "background", e, None, NoListeners[e],
                            r.out, 0)
  /\ background' = [background EXCEPT ![<<fn, e>>] = @ - 1]
  /\ UNCHANGED <<db, active_connections, interfaces, handler>>

Faults == {"none", "parse", "send", "recv"}

\* Connections and listeners: the manager's connect and disconnect, the
\* handler's start and stop, the listener tasks, and the two endpoints that
\* combine them.
NextLifecycle ==
  \/ ResultHandlerInit
  \/ \E e \in EquipmentIds, ok \in BOOLEAN : CallDisconnect(e, ok)
  \/ \E e \in EquipmentIds : CallStartListening(e)
  \/ \E e \in EquipmentIds : CallStopListening(e)
  \/ \E e \in EquipmentIds, ok \in BOOLEAN : CallStopThenDisconnect(e, ok)
  \/ \E t \in TaskIds : RunTask(t)
  \/ \E e \in EquipmentIds, ok \in BOOLEAN : ApiConnect(e, ok)
  \/ \E e \in EquipmentIds, ok \in BOOLEAN : ApiDisconnect(e, ok)
  \/ \E b \in BgTasks : RunBackground(b[1], b[2])

\* Commands: the manager's connect and disconnect, and the two endpoints
\* that send to a connected equipment.
NextCommands ==
  \/ \E e \in EquipmentIds, ok \in BOOLEAN : CallConnect(e, ok)
  \/ \E e \in EquipmentIds, ok \in BOOLEAN : CallDisconnect(e, ok)
  \/ \E e \in EquipmentIds, fault \in Faults : ApiSendCommand(e, fault)
  \/ \E e \in EquipmentIds, fault \in Faults : ApiRequestResults(e, fault)

Next == NextLifecycle \/ NextCommands

Spec          == Init /\ [][Next]_vars
SpecLifecycle == Init /\ [][NextLifecycle]_vars
SpecCommands  == Init /\ [][NextCommands]_vars

TypeOK ==
  /\ \A e \in EquipmentIds : active_connections[e] \in InterfaceIds \cup {None}
  /\ \A i \in InterfaceIds : interfaces[i].status \in {"unused", "open"}
  /\ \A t \in TaskIds : tasks[t].pc \in {"unused", "created", "backoff", "done"}

\* ------------------------------------------------ the ingestion loop
MaxMessages == 2        \* messages the instruments send
MaxLines    == 2        \* result lines of one message

\* A message on the link: its id, whether the codec of the equipment can
\* decode it, and the number of result lines (OBX segments, R records,
\* components) it carries.  NoData is the empty payload of a read that
\* timed out.
Message(id, wellformed, lines) ==
  [id |-> id, wellformed |-> wellformed, lines |-> lines]

NoData == Message(None, FALSE, 0)

\* Interface_receive_data as it would be if it handed out the newest unread
\* message instead of the oldest.
Interface_receive_data_newest_first(buffer, fault) ==
  CASE fault         -> [raised |-> "TransportError", data |-> NoData,
                         buffer |-> buffer]
    [] ~fault /\ buffer = <<>>
                     -> [raised |-> "", data |-> NoData, buffer |-> buffer]
    [] OTHER         -> [raised |-> "", data |-> buffer[Len(buffer)],
                         buffer |-> SubSeq(buffer, 1, Len(buffer) - 1)]

\* NetworkEquipment.receive_data / SerialEquipment.receive_data on a link
\* whose unread messages are buffer: one read; an I/O exception is logged
\* and re-raised, a read with nothing to read returns the empty payload.
Interface_receive_data(buffer, fault) ==
  CASE fault         -> [raised |-> "TransportError", data |-> NoData,
                         buffer |-> buffer]
    [] ~fault /\ buffer = <<>>
                     -> [raised |-> "", data |-> NoData, buffer |-> buffer]
    [] OTHER         -> [raised |-> "", data |-> Head(buffer),
                         buffer |-> Tail(buffer)]

\* The receive the listener calls on the manager (result_handler.py line
\* 56).  EquipmentManager does not define it; here it is what the loop's
\* first step is specified to be: Transport.receive() of the registered
\* interface, failing like send_command_to_equipment for an unregistered id.
Transport_receive(equipment_id, fault) ==
  IF active_connections[equipment_id] = None
  THEN [raised |-> "ValueError", data |-> NoData,
        buffer |-> transport[equipment_id]]
  ELSE Interface_receive_data(transport[equipment_id], fault)

\* HL7ResultProcessor / ASTMResultProcessor / HL7FHIRResultProcessor
\* .process_result: the decoded message, or HTTPException(400) wrapping
\* whatever the decoding raised.
process_result(data) ==
  IF data.wellformed
  THEN [raised |-> "", message_id |-> data.id, results |-> data.lines]
  ELSE [raised |-> "HTTPException", message_id |-> None, results |-> 0]

\* The TestResult rows 1..n of a decoded message.
Rows(equipment_id, message_id, n) ==
  [i \in 1..n |-> [equipment |-> equipment_id, message |-> message_id,
                   line |-> i]]

\* _save_results as it would be without the rollback of line 104.
save_results_without_rollback(equipment_id, processed, fault) ==
  IF fault = 0
  THEN [raised  |-> "",
        session |-> <<>>,
        store   |-> store \o session
                      \o Rows(equipment_id, processed.message_id,
                              processed.results)]
  ELSE [raised  |-> "Exception",
        session |-> session \o Rows(equipment_id, processed.message_id,
                                    IF fault <= processed.results
                                    THEN fault - 1 ELSE processed.results),
        store   |-> store]

\* ResultHandler._save_results: add one row per result to the session and
\* commit; on any exception roll the session back and re-raise.  fault is 0
\* when nothing fails, k when building or adding row k fails, and a number
\* above the row count when the commit fails.
save_results(equipment_id, processed, fault) ==
  IF fault = 0
  THEN [raised  |-> "",
        session |-> <<>>,
        store   |-> store \o session
                      \o Rows(equipment_id, processed.message_id,
                              processed.results)]
  ELSE [raised  |-> "Exception", session |-> <<>>, store |-> store]

\* send_acknowledgment of the three processors: nothing outside the
\* acknowledging mode; otherwise HL7 and ASTM build the acknowledgment and
\* return it, HL7-FHIR posts it to the result endpoint and answers False
\* when that fails.  None of them writes to the equipment's transport.
send_acknowledgment(protocol, communication_type, message_id) ==
  CASE communication_type # "BIDIRECTIONAL_WITH_ACK" ->
         Outcome("", "True", <<>>)
    [] communication_type = "BIDIRECTIONAL_WITH_ACK"
       /\ protocol = "HL7-FHIR" ->
         Outcome("", "bool", <<"encode_ack", "http_post">>)
    [] OTHER ->
         Outcome("", "ack", <<"encode_ack">>)

\* The entries one pass of a loop adds to the log: the steps it performed
\* on the message it read.
Steps(names, equipment_id, data) ==
  [i \in 1..Len(names) |->
     [step |-> names[i], equipment |-> equipment_id, message |-> data.id,
      lines |-> data.lines]]

\* The inner handler as it would be if an exception of the loop body ended
\* the coroutine (through the "except Exception" of lines 78-79) instead of
\* being retried.
except_Exception_fatal(task) ==
  [task EXCEPT !.pc = "done", !.exit = "returned"]

\* The inner "except Exception" of lines 72-74: log the exception of the
\* loop body, whatever it is, and suspend in asyncio.sleep(5); the loop
\* then goes on.
except_Exception(task) ==
  [task EXCEPT !.pc = "backoff"]

\* listen_pass as it would be if the acknowledgment of lines 69-70 came
\* before the save of line 66.
listen_pass_ack_first(task, recvFault, saveFault) ==
  LET e    == task.equipment
      r    == Transport_receive(e, recvFault)
      p    == process_result(r.data)
      sv   == save_results(e, p, saveFault)
      ack  == send_acknowledgment(db[e].protocol, db[e].communication_type,
                                  p.message_id)
      same == [task |-> task, buffer |-> r.buffer, session |-> session,
               store |-> store, steps |-> <<>>]
  IN CASE r.raised # "" ->
            [same EXCEPT !.task = except_Exception(task)]
       [] r.raised = "" /\ r.data = NoData ->
            [same EXCEPT !.task =
               [task EXCEPT !.pc = IF db[e].polling_interval
                                   THEN "polling" ELSE "running"]]
       [] r.raised = "" /\ r.data # NoData /\ p.raised # "" ->
            [same EXCEPT !.task = except_Exception(task),
                         !.steps = Steps(<<"receive", "decode_failed">>,
                                         e, r.data)]
       [] r.raised = "" /\ r.data # NoData /\ p.raised = ""
          /\ sv.raised # "" ->
            [same EXCEPT !.task = except_Exception(task),
                         !.session = sv.session,
                         !.store = sv.store,
                         !.steps =
                           Steps(<<"receive", "decode">>
                                   \o (IF db[e].communication_type
                                            = "BIDIRECTIONAL_WITH_ACK"
                                       THEN ack.trace ELSE <<>>)
                                   \o <<"save_failed">>,
                                 e, r.data)]
       [] OTHER ->
            [same EXCEPT !.task = [task EXCEPT !.pc = "running"],
                         !.session = sv.session,
                         !.store = sv.store,
                         !.steps =
                           Steps(<<"receive", "decode">>
                                   \o (IF db[e].communication_type
                                            = "BIDIRECTIONAL_WITH_ACK"
                                       THEN ack.trace ELSE <<>>)
                                   \o <<"save">>,
                                 e, r.data)]

\* One pass of the body of _listen_for_results (lines 54-74) for a task that
\* is running: receive; an empty payload sleeps polling_interval when the
\* row sets one and continues; otherwise decode, save, and acknowledge when
\* the row is BIDIRECTIONAL_WITH_ACK.  Any exception is logged and followed
\* by asyncio.sleep(5).  None of the awaits on the way suspends, so a pass
\* ends suspended in a sleep ("polling", "backoff") or still "running".
listen_pass(task, recvFault, saveFault) ==
  LET e    == task.equipment
      r    == Transport_receive(e, recvFault)
      p    == process_result(r.data)
      sv   == save_results(e, p, saveFault)
      ack  == send_acknowledgment(db[e].protocol, db[e].communication_type,
                                  p.message_id)
      same == [task |-> task, buffer |-> r.buffer, session |-> session,
               store |-> store, steps |-> <<>>]
  IN CASE r.raised # "" ->
            [same EXCEPT !.task = except_Exception(task)]
       [] r.raised = "" /\ r.data = NoData ->
            [same EXCEPT !.task =
               [task EXCEPT !.pc = IF db[e].polling_interval
                                   THEN "polling" ELSE "running"]]
       [] r.raised = "" /\ r.data # NoData /\ p.raised # "" ->
            [same EXCEPT !.task = except_Exception(task),
                         !.steps = Steps(<<"receive", "decode_failed">>,
                                         e, r.data)]
       [] r.raised = "" /\ r.data # NoData /\ p.raised = ""
          /\ sv.raised # "" ->
            [same EXCEPT !.task = except_Exception(task),
                         !.session = sv.session,
                         !.store = sv.store,
                         !.steps = Steps(<<"receive", "decode", "save_failed">>,
                                         e, r.data)]
       [] OTHER ->
            [same EXCEPT !.task = [task EXCEPT !.pc = "running"],
                         !.session = sv.session,
                         !.store = sv.store,
                         !.steps =
                           Steps(<<"receive", "decode", "save">>
                                   \o (IF db[e].communication_type
                                            = "BIDIRECTIONAL_WITH_ACK"
                                       THEN ack.trace ELSE <<>>),
                                 e, r.data)]

\* The event loop is free to run something else only when no listener is in
\* the middle of a run.
LoopIdle == \A t \in TaskIds : tasks[t].pc # "running"

\* The fault a save of the next message of e can meet.
SaveFaults(e) ==
  IF transport[e] = <<>> THEN {0} ELSE 0..(Head(transport[e]).lines + 1)

\* RunListener as it would be if the inner "except Exception" caught the
\* cancellation: the cancelled listener logs it, sleeps five seconds and
\* goes on with the loop.
RunListener_catching_cancel(t, recvFault, saveFault) ==
  /\ \/ tasks[t].pc = "running"
     \/ LoopIdle /\ tasks[t].pc \in {"created", "polling", "backoff"}
  /\ saveFault \in SaveFaults(tasks[t].equipment)
  /\ IF tasks[t].cancel
     THEN /\ tasks' = [tasks EXCEPT ![t] =
                         IF tasks[t].pc = "created"
                         THEN [@ EXCEPT !.pc = "done", !.cancel = FALSE,
                                        !.exit = "cancelled"]
                         ELSE [@ EXCEPT !.pc = "backoff", !.cancel = FALSE]]
          /\ UNCHANGED ingestVars
     ELSE LET r == listen_pass(tasks[t], recvFault, saveFault)
          IN /\ tasks' = [tasks EXCEPT ![t] = r.task]
             /\ transport' = [transport EXCEPT ![tasks[t].equipment] = r.buffer]
             /\ session' = r.session
             /\ store' = r.store
             /\ log' = log \o r.steps
             /\ UNCHANGED codec
  /\ UNCHANGED <<db, active_connections, interfaces, handler, background,
                 lastCall>>

\* The event loop resumes a listener: a cancelled one ends (before its first
\* line when it never ran, through "except asyncio.CancelledError" when it
\* slept), any other runs one pass of the loop body.
RunListener(t, recvFault, saveFault) ==
  /\ \/ tasks[t].pc = "running"
     \/ LoopIdle /\ tasks[t].pc \in {"created", "polling", "backoff"}
  /\ saveFault \in SaveFaults(tasks[t].equipment)
  /\ IF tasks[t].cancel
     THEN /\ tasks' = [tasks EXCEPT ![t] =
                         [@ EXCEPT !.pc = "done", !.cancel = FALSE,
                                   !.exit = IF tasks[t].pc = "created"
                                            THEN "cancelled" ELSE "returned"]]
          /\ UNCHANGED ingestVars
     ELSE LET r == listen_pass(tasks[t], recvFault, saveFault)
          IN /\ tasks' = [tasks EXCEPT ![t] = r.task]
             /\ transport' = [transport EXCEPT ![tasks[t].equipment] = r.buffer]
             /\ session' = r.session
             /\ store' = r.store
             /\ log' = log \o r.steps
             /\ UNCHANGED codec
  /\ UNCHANGED <<db, active_connections, interfaces, handler, background,
                 lastCall>>

\* Messages sent so far: those read by a listener or still unread.
Sent ==
  Cardinality({log[i].message : i \in 1..Len(log)}
              \cup UNION {{transport[e][i].id : i \in 1..Len(transport[e])}
                          : e \in EquipmentIds})

\* The instrument of a connected equipment sends a message.
Deliver(e, wellformed, lines) ==
  /\ active_connections[e] # None
  /\ Sent < MaxMessages
  /\ wellformed \/ lines = 0
  /\ transport' = [transport EXCEPT ![e] =
                     Append(@, Message(Sent + 1, wellformed, lines))]
  /\ UNCHANGED <<db, active_connections, interfaces, handler, tasks,
                 background, lastCall, session, store, log, codec>>

\* The equipment whose rows start_listening accepts.
Listenable == {e \in EquipmentIds : CreatesTask(NoListeners, e)}

\* Ingestion starts where a caller has constructed its handler, connected
\* some of the equipment with connect_equipment and started a listener with
\* start_listening for every row that has a result processor: interface e
\* and task e belong to equipment e.
InitIngest ==
  /\ db \in EquipmentTables
  /\ \E connected \in SUBSET EquipmentIds :
       /\ active_connections =
            [e \in EquipmentIds |-> IF e \in connected THEN e ELSE None]
       /\ interfaces =
            [i \in InterfaceIds |->
               IF i \in connected
               THEN [status |-> "open", kind |-> InterfaceKind(ConfigOf(db[i])),
                     protocol |-> ConfigOf(db[i]).protocol]
               ELSE NoInterface]
  /\ handler = [constructed |-> TRUE,
                active_listeners |->
                  [e \in EquipmentIds |-> IF e \in Listenable THEN e ELSE None]]
  /\ tasks = [t \in TaskIds |->
                IF t \in Listenable
                THEN [pc |-> "created", equipment |-> t, cancel |-> FALSE,
                      exit |-> ""]
                ELSE NoTask]
  /\ background = [b \in BgTasks |-> 0]
  /\ lastCall = NoCall
  /\ transport = [e \in EquipmentIds |-> <<>>]
  /\ session = <<>>
  /\ store = <<>>
  /\ log = <<>>
  /\ codec = [op |-> "", kind |-> "", raw |-> <<>>, out |-> <<>>]

\* Ingestion: the instruments send, the listeners run, and the caller stops
\* listeners.
NextIngest ==
  \/ \E e \in EquipmentIds, w \in BOOLEAN, n \in 0..MaxLines : Deliver(e, w, n)
  \/ \E t \in TaskIds, rf \in BOOLEAN, sf \in 0..(MaxLines + 1) :
       RunListener(t, rf, sf)
  \/ \E e \in EquipmentIds : LoopIdle /\ CallStopListening(e)

SpecIngest == InitIngest /\ [][NextIngest]_vars

\* The listeners as the code has them, with instruments that send: every
\* listener task is resumed again and again (the event loop is fair to a
\* task that is ready), and its pass is the one of listen_for_results,
\* whose receive is the call of line 56.
NextLive ==
  \/ \E e \in EquipmentIds, w \in BOOLEAN, n \in 0..MaxLines : Deliver(e, w, n)
  \/ \E t \in TaskIds : RunTask(t)

SpecLive ==
  /\ InitIngest
  /\ [][NextLive]_vars
  /\ \A t \in TaskIds : WF_vars(RunTask(t))

TypeOKIngest ==
  /\ \A t \in TaskIds :
       tasks[t].pc \in {"unused", "created", "running", "polling", "backoff",
                        "done"}
  /\ session = <<>>
  /\ Len(log) <= 4 * MaxMessages

\* ------------------------------------------------ the result codecs
\* Text is a sequence of one-character strings; the control characters
\* \x02, \x03, \r and \n are written "STX", "ETX", "CR" and "LF".
MaxRecords == 2         \* records or segments after the first of a message

RECURSIVE LStrip(_, _)
\* str.lstrip(chars)
LStrip(text, chars) ==
  IF text # <<>> /\ Head(text) \in chars
  THEN LStrip(Tail(text), chars) ELSE text

RECURSIVE RStrip(_, _)
\* str.rstrip(chars)
RStrip(text, chars) ==
  IF text # <<>> /\ text[Len(text)] \in chars
  THEN RStrip(SubSeq(text, 1, Len(text) - 1), chars) ELSE text

\* str.strip(chars)
Strip(text, chars) == RStrip(LStrip(text, chars), chars)

RECURSIVE Split(_, _)
\* str.split(sep) for a one-character sep: the pieces between the
\* occurrences of sep, one piece more than there are occurrences.
Split(text, sep) ==
  IF \A i \in 1..Len(text) : text[i] # sep
  THEN <<text>>
  ELSE LET i == CHOOSE i \in 1..Len(text) :
                  text[i] = sep /\ \A j \in 1..(i - 1) : text[j] # sep
       IN <<SubSeq(text, 1, i - 1)>>
            \o Split(SubSeq(text, i + 1, Len(text)), sep)

RECURSIVE Join(_, _)
\* sep.join(pieces)
Join(pieces, sep) ==
  IF pieces = <<>> THEN <<>>
  ELSE IF Len(pieces) = 1 THEN pieces[1]
  ELSE pieces[1] \o <<sep>> \o Join(Tail(pieces), sep)

\* fields[k] if len(fields) > k else '', with Python's indices from 0
FieldOr(fields, k) == IF Len(fields) > k THEN fields[k + 1] ELSE <<>>

\* The result of an R record as it would be if the status were read from
\* field 7.
ASTM_result_status_7(fields) ==
  [test_code       |-> FieldOr(fields, 2),
   value           |-> FieldOr(fields, 3),
   units           |-> FieldOr(fields, 4),
   reference_range |-> FieldOr(fields, 5),
   flags           |-> FieldOr(fields, 6),
   status          |-> FieldOr(fields, 7)]

\* ASTMResultProcessor.process_result, lines 99-106: the result of an R
\* record.
ASTM_result(fields) ==
  [test_code       |-> FieldOr(fields, 2),
   value           |-> FieldOr(fields, 3),
   units           |-> FieldOr(fields, 4),
   reference_range |-> FieldOr(fields, 5),
   flags           |-> FieldOr(fields, 6),
   status          |-> FieldOr(fields, 8)]

\* header, patient and results before the first record
ASTM_start ==
  [header  |-> [present |-> FALSE, sender |-> <<>>, message_id |-> <<>>],
   patient |-> [present |-> FALSE, id |-> <<>>, name |-> <<>>],
   results |-> <<>>]

\* ASTMResultProcessor.process_result, lines 82-107: one record.
ASTM_record(acc, record) ==
  LET fields == Split(record, "|")
  IN CASE record = <<>> -> acc
       [] record # <<>> /\ record[1] = "H" ->
            [acc EXCEPT !.header =
               [present |-> TRUE, sender |-> FieldOr(fields, 4),
                message_id |-> FieldOr(fields, 5)]]
       [] record # <<>> /\ record[1] = "P" ->
            [acc EXCEPT !.patient =
               [present |-> TRUE, id |-> FieldOr(fields, 3),
                name |-> FieldOr(fields, 4)]]
       [] record # <<>> /\ record[1] = "R" ->
            [acc EXCEPT !.results = Append(@, ASTM_result(fields))]
       [] OTHER -> acc

RECURSIVE ASTM_records(_, _)
\* the loop of line 81
ASTM_records(acc, records) ==
  IF records = <<>> THEN acc
  ELSE ASTM_records(ASTM_record(acc, Head(records)), Tail(records))

\* ASTMResultProcessor.process_result as it would be if the fields of an R
\* record were indexed without the length test: a record with fewer than
\* nine fields raises IndexError, which the handler turns into HTTPException.
ASTM_process_result_unguarded(raw_data) ==
  LET data    == Strip(raw_data, {"STX", "ETX", "CR", "LF"})
      records == Split(data, "CR")
      acc     == ASTM_records(ASTM_start, records)
  IN IF \E i \in 1..Len(records) :
          /\ records[i] # <<>> /\ records[i][1] = "R"
          /\ Len(Split(records[i], "|")) < 9
     THEN [raised |-> "HTTPException", message_id |-> <<>>,
           patient_id |-> <<>>, patient_name |-> <<>>, results |-> <<>>]
     ELSE [raised       |-> "",
           message_id   |-> acc.header.message_id,
           patient_id   |-> acc.patient.id,
           patient_name |-> acc.patient.name,
           results      |-> acc.results]

\* ASTMResultProcessor.process_result: strip the frame characters from both
\* ends, split into records at CR, read the H, P and R records.  No step of
\* it raises on text.  message_datetime is the time of decoding.
ASTM_process_result(raw_data) ==
  LET data    == Strip(raw_data, {"STX", "ETX", "CR", "LF"})
      records == Split(data, "CR")
      acc     == ASTM_records(ASTM_start, records)
  IN [raised       |-> "",
      message_id   |-> acc.header.message_id,
      patient_id   |-> acc.patient.id,
      patient_name |-> acc.patient.name,
      results      |-> acc.results]

\* ASTMResultProcessor.send_acknowledgment in BIDIRECTIONAL_WITH_ACK mode:
\* the frame \x02H|\^&|||LIS|LAB||{message_id}||P|1\r\x03\r\n
ASTM_send_acknowledgment(message_id) ==
  <<"STX", "H", "|", "\\", "^", "&", "|", "|", "|", "L", "I", "S", "|",
    "L", "A", "B", "|", "|">>
    \o message_id
    \o <<"|", "|", "P", "|", "1", "CR", "ETX", "CR", "LF">>

\* An ASTM frame: \x02, the records with a CR after each, \x03\r\n.
ASTM_frame(records) ==
  <<"STX">> \o Join(records, "CR") \o <<"CR", "ETX", "CR", "LF">>

\* Records an instrument sends: the header, patient and result records of
\* the HGB example, a result with every field, short records, records of
\* other types.
ASTM_H ==
  <<"H", "|", "\\", "^", "&", "|", "|", "|", "L", "I", "S", "|", "L", "A",
    "B", "|", "|", "P", "T", "0", "0", "2", "|", "|", "P", "|", "1">>

ASTM_P ==
  <<"P", "|", "1", "|", "|", "P", "T", "0", "0", "2">>

ASTM_R ==
  <<"R", "|", "1", "|", "H", "G", "B", "|", "1", "4", ".", "2", "|", "g",
    "/", "d", "L", "|", "1", "2", "-", "1", "6", "|", "|", "F">>

ASTM_R_long ==
  <<"R", "|", "2", "|", "K", "|", "4", ".", "1", "|", "m", "m", "o", "l",
    "/", "L", "|", "3", ".", "5", "-", "5", ".", "1", "|", "N", "|", "|",
    "F">>

ASTM_R_short ==
  <<"R", "|", "3", "|", "N", "A">>

ASTM_R_bare ==
  <<"R">>

ASTM_P_bare ==
  <<"P">>

ASTM_H_bare ==
  <<"H">>

ASTM_C ==
  <<"C", "|", "1", "|", "n", "o", "t", "e">>

ASTM_L ==
  <<"L", "|", "1", "|", "N">>

ASTM_Records ==
  {ASTM_H, ASTM_P, ASTM_R, ASTM_R_long, ASTM_R_short, ASTM_R_bare,
   ASTM_P_bare, ASTM_H_bare, ASTM_C, ASTM_L, <<>>}

\* The HGB example: header, patient and one result record in a frame.
ASTM_Scenario == ASTM_frame(<<ASTM_H, ASTM_P, ASTM_R>>)

Id_MSG1 ==
  <<"M", "S", "G", "1">>

Id_LAB ==
  <<"L", "A", "B">>

Id_7 ==
  <<"7">>

\* Message ids to acknowledge.
MessageIds == {Id_MSG1, Id_LAB, Id_7, <<>>}

\* Frames of up to 1 + MaxRecords records.
RECURSIVE RecordLists(_)
RecordLists(n) ==
  IF n = 0 THEN {<<>>}
  ELSE RecordLists(n - 1)
         \cup {Append(l, r) : l \in {k \in RecordLists(n - 1) : Len(k) = n - 1},
                              r \in ASTM_Records}

\* ----------------------------------------------------------- HL7 v2
\* hl7.parse as python-hl7 0.3 and later build it: a message is a list of
\* segments, a segment a list of fields, a field a list of repetitions, a
\* repetition a list of components.  A text that holds none of the
\* separators of its level or of the levels below is kept whole as the one
\* element of its container.  The model keeps the text of every field and
\* computes the elements the processor indexes.

\* whether a text holds one of the characters
HasAny(text, chars) == \E i \in 1..Len(text) : text[i] \in chars

\* str.find(ch, start) with positions from 1; 0 when there is none
Find(text, ch, start) ==
  IF \E i \in start..Len(text) : text[i] = ch
  THEN CHOOSE i \in start..Len(text) :
         text[i] = ch /\ \A j \in start..(i - 1) : text[j] # ch
  ELSE 0

\* The fields of one segment.  A segment without any separator is the list
\* of its own text (bare); the MSH segment gets the fields MSH, the field
\* separator and the encoding characters before the fields that follow.
HL7_segment(text) ==
  IF ~HasAny(text, {"|", "~", "^", "&"})
  THEN [bare |-> TRUE, fields |-> <<text>>]
  ELSE IF Len(text) >= 4 /\ SubSeq(text, 1, 3) = <<"M", "S", "H">>
  THEN LET off  == Find(text, text[4], 5)
           seps == IF off = 0 THEN SubSeq(text, 5, Len(text) - 1)
                   ELSE SubSeq(text, 5, off - 1)
           rest == IF off = 0 THEN text
                   ELSE SubSeq(text, off + 1, Len(text))
       IN [bare |-> FALSE,
           fields |-> <<SubSeq(text, 1, 3), <<text[4]>>, seps>>
                        \o (IF rest = <<>> THEN <<>> ELSE Split(rest, "|"))]
  ELSE [bare |-> FALSE, fields |-> Split(text, "|")]

\* The texts of the elements of a field: its repetitions, or the field
\* itself when it holds no separator.
HL7_elements(field) ==
  IF HasAny(field, {"~", "^", "&"}) THEN Split(field, "~") ELSE <<field>>

\* segment[0][0] == segment_id, for a segment_id of three letters
HL7_named(segment, segment_id) ==
  /\ ~segment.bare
  /\ ~HasAny(segment.fields[1], {"~", "^", "&"})
  /\ segment.fields[1] = segment_id

\* Message.segments(segment_id): the segments of that name, in order.  It
\* raises IndexError on an empty segment and KeyError when none matches.
HL7_segments(message, segment_id) ==
  LET idx == {i \in 1..Len(message) : HL7_named(message[i], segment_id)}
      Pick[i \in 0..Len(message)] ==
        IF i = 0 THEN <<>>
        ELSE IF i \in idx THEN Append(Pick[i - 1], message[i])
        ELSE Pick[i - 1]
  IN IF \E i \in 1..Len(message) :
          message[i].bare /\ message[i].fields[1] = <<>>
     THEN [raised |-> "IndexError", found |-> <<>>]
     ELSE IF idx = {} THEN [raised |-> "KeyError", found |-> <<>>]
     ELSE [raised |-> "", found |-> Pick[Len(message)]]

\* str(segment[k][j] if segment[k][j] else ''), with Python's indices
HL7_get(segment, k, j) ==
  IF Len(segment.fields) > k /\ Len(HL7_elements(segment.fields[k + 1])) > j
  THEN [raised |-> "", val |-> HL7_elements(segment.fields[k + 1])[j + 1]]
  ELSE [raised |-> "IndexError", val |-> <<>>]

\* str(segment[k])
HL7_field(segment, k) ==
  IF Len(segment.fields) > k
  THEN [raised |-> "", val |-> segment.fields[k + 1]]
  ELSE [raised |-> "IndexError", val |-> <<>>]

\* the first exception of a list of evaluations, "" when there is none
FirstRaised(evals) ==
  IF \E i \in 1..Len(evals) : evals[i].raised # ""
  THEN evals[CHOOSE i \in 1..Len(evals) :
               evals[i].raised # ""
               /\ \A j \in 1..(i - 1) : evals[j].raised = ""].raised
  ELSE ""

\* HL7ResultProcessor.process_result, lines 37-45: the parts of one OBX
\* segment, in the order the dictionary evaluates them.
HL7_result_parts(obx) ==
  <<HL7_get(obx, 3, 0), HL7_get(obx, 3, 1), HL7_get(obx, 5, 0),
    HL7_get(obx, 6, 0), HL7_get(obx, 7, 0), HL7_get(obx, 8, 0),
    HL7_get(obx, 11, 0)>>

\* the result dictionary of one OBX segment
HL7_result(obx) ==
  LET parts == HL7_result_parts(obx)
  IN [raised          |-> FirstRaised(parts),
      test_code       |-> parts[1].val,
      test_name       |-> parts[2].val,
      value           |-> parts[3].val,
      units           |-> parts[4].val,
      reference_range |-> parts[5].val,
      flags           |-> parts[6].val,
      status          |-> parts[7].val]

\* what process_result answers when anything inside it raised (line 56)
HL7_failed ==
  [raised |-> "HTTPException", message_id |-> <<>>,
   message_datetime |-> <<>>, patient_id |-> <<>>, patient_name |-> <<>>,
   results |-> <<>>]

\* HL7ResultProcessor.process_result: parse, read the first PID segment,
\* one result per OBX segment, then message id and time from MSH.  Every
\* exception on the way becomes an HTTPException.
HL7_process_result(raw_data) ==
  LET strmsg  == Strip(raw_data, {"CR", "LF", " "})
      parses  == Len(strmsg) >= 4 /\ SubSeq(strmsg, 1, 3) = <<"M", "S", "H">>
      message == [i \in 1..Len(Split(strmsg, "CR")) |->
                    HL7_segment(Split(strmsg, "CR")[i])]
      pids    == HL7_segments(message, <<"P", "I", "D">>)
      pid     == pids.found[1]
      obxs    == HL7_segments(message, <<"O", "B", "X">>)
      results == [i \in 1..Len(obxs.found) |-> HL7_result(obxs.found[i])]
      msh     == HL7_segments(message, <<"M", "S", "H">>).found[1]
  IN IF ~parses THEN HL7_failed
     ELSE IF pids.raised # "" THEN HL7_failed
     ELSE IF FirstRaised(<<HL7_get(pid, 3, 0), HL7_get(pid, 5, 0)>>) # ""
     THEN HL7_failed
     ELSE IF obxs.raised # "" THEN HL7_failed
     ELSE IF FirstRaised(results) # "" THEN HL7_failed
     ELSE IF FirstRaised(<<HL7_field(msh, 10), HL7_field(msh, 7)>>) # ""
     THEN HL7_failed
     ELSE [raised           |-> "",
           message_id       |-> HL7_field(msh, 10).val,
           message_datetime |-> HL7_field(msh, 7).val,
           patient_id       |-> HL7_get(pid, 3, 0).val,
           patient_name     |-> HL7_get(pid, 5, 0).val,
           results          |-> [i \in 1..Len(results) |->
                                   [test_code |-> results[i].test_code,
                                    test_name |-> results[i].test_name,
                                    value |-> results[i].value,
                                    units |-> results[i].units,
                                    reference_range |->
                                      results[i].reference_range,
                                    flags |-> results[i].flags,
                                    status |-> results[i].status]]]

\* Segments an instrument sends: those of the glucose example, an OBX whose
\* field 3 holds two repetitions, short segments, a note.
HL7_MSH ==
  <<"M", "S", "H", "|", "^", "~", "\\", "&", "|", "L", "I", "S", "|", "L",
    "A", "B", "|", "E", "Q", "P", "|", "L", "A", "B", "|", "2", "0", "2",
    "5", "0", "1", "0", "1", "1", "2", "0", "0", "0", "0", "|", "|", "O",
    "R", "U", "^", "R", "0", "1", "|", "M", "S", "G", "1", "|", "P", "|",
    "2", ".", "5", ".", "1">>

HL7_MSH_short ==
  <<"M", "S", "H", "|", "^", "~", "\\", "&", "|", "L", "I", "S", "|", "L",
    "A", "B">>

HL7_PID ==
  <<"P", "I", "D", "|", "|", "|", "P", "T", "0", "0", "1", "|", "|", "D",
    "o", "e", "^", "J", "o", "h", "n">>

HL7_PID_short ==
  <<"P", "I", "D", "|", "|", "|", "P", "T", "0", "0", "1">>

HL7_OBX ==
  <<"O", "B", "X", "|", "1", "|", "N", "M", "|", "G", "L", "U", "^", "G",
    "l", "u", "c", "o", "s", "e", "|", "|", "9", "5", "|", "m", "g", "/",
    "d", "L", "|", "7", "0", "-", "1", "1", "0", "|", "N", "|", "|", "|",
    "F">>

HL7_OBX_repeated ==
  <<"O", "B", "X", "|", "2", "|", "N", "M", "|", "K", "~", "P", "o", "t",
    "a", "s", "s", "i", "u", "m", "|", "|", "4", ".", "1", "|", "m", "m",
    "o", "l", "/", "L", "|", "3", ".", "5", "-", "5", ".", "1", "|", "N",
    "|", "|", "|", "F">>

HL7_OBX_short ==
  <<"O", "B", "X", "|", "3", "|", "N", "M", "|", "N", "A", "^", "S", "o",
    "d", "i", "u", "m", "|", "|", "1", "4", "0">>

HL7_OBX_repeated_short ==
  <<"O", "B", "X", "|", "3", "|", "N", "M", "|", "N", "A", "~", "S", "o",
    "d", "i", "u", "m", "|", "|", "1", "4", "0">>

HL7_NTE ==
  <<"N", "T", "E", "|", "1", "|", "|", "n", "o", "t", "e">>

HL7_Headers == {HL7_MSH, HL7_MSH_short}

HL7_Segments ==
  {HL7_PID, HL7_PID_short, HL7_OBX, HL7_OBX_repeated, HL7_OBX_short,
   HL7_OBX_repeated_short, HL7_NTE}

\* Lists of up to n segments after the header.
RECURSIVE SegmentLists(_)
SegmentLists(n) ==
  IF n = 0 THEN {<<>>}
  ELSE SegmentLists(n - 1)
         \cup {Append(l, r) : l \in {k \in SegmentLists(n - 1) : Len(k) = n - 1},
                              r \in HL7_Segments}

\* An HL7 message: its segments with a CR after each.
HL7_message(segments) == Join(segments, "CR") \o <<"CR">>

\* The glucose example: MSH, PID and one OBX segment.
HL7_Scenario == HL7_message(<<HL7_MSH, HL7_PID, HL7_OBX>>)

\* ------------------------------------------------ result requests
PT002 == <<"P", "T", "0", "0", "2">>

PT001 == <<"P", "T", "0", "0", "1">>

\* The patient_id argument of request_results; None is the empty text, as
\* "patient_id or ''" makes it.
PatientIds == {PT001, PT002, <<>>}

\* ResultHandler._build_request_command for ASTM (line 142): the text
\* \x02H|\^&|||LIS|LAB||{patient_id}||P|1\rQ|1|{patient_id}^ALL||ALL\r\x03\r\n
ASTM_build_request_command(patient_id) ==
  <<"STX", "H", "|", "\\", "^", "&", "|", "|", "|", "L", "I", "S", "|",
    "L", "A", "B", "|", "|">>
    \o patient_id
    \o <<"|", "|", "P", "|", "1", "CR", "Q", "|", "1", "|">>
    \o patient_id
    \o <<"^", "A", "L", "L", "|", "|", "A", "L", "L", "CR", "ETX", "CR",
         "LF">>

\* SerialEquipment.send_command, lines 120-124: what serial.write is given.
\* For ASTM the command is put between \x02 and \x03\r\n; encode() turns
\* each of these characters into the byte of the same code.
SerialEquipment_written(protocol, command) ==
  IF protocol = "ASTM"
  THEN <<"STX">> \o command \o <<"ETX", "CR", "LF">>
  ELSE command

\* What a processor is given: an ASTM frame, a message id to acknowledge,
\* an HL7 message; and the patient id of a request.
CodecInputs ==
  {[op |-> "", kind |-> "ASTM frame", raw |-> ASTM_frame(records),
    out |-> <<>>] : records \in RecordLists(1 + MaxRecords)}
  \cup {[op |-> "", kind |-> "message id", raw |-> message_id,
         out |-> <<>>] : message_id \in MessageIds}
  \cup {[op |-> "", kind |-> "patient id", raw |-> patient_id,
         out |-> <<>>] : patient_id \in PatientIds}
  \cup {[op |-> "", kind |-> "HL7 message",
         raw |-> HL7_message(<<header>> \o segments), out |-> <<>>] :
           header \in HL7_Headers, segments \in SegmentLists(1 + MaxRecords)}

\* A caller decodes the ASTM frame it holds.
DecodeASTM ==
  /\ codec.op = "" /\ codec.kind = "ASTM frame"
  /\ codec' = [codec EXCEPT !.op = "ASTM.process_result",
                            !.out = ASTM_process_result(codec.raw)]
  /\ UNCHANGED <<db, active_connections, interfaces, handler, tasks,
                 background, lastCall, transport, session, store, log>>

\* A caller builds the acknowledgment of a message id and decodes it.
AckRoundTripASTM ==
  /\ codec.op = "" /\ codec.kind = "message id"
  /\ codec' = [codec EXCEPT
                 !.op = "ASTM.send_acknowledgment;ASTM.process_result",
                 !.out = ASTM_process_result(
                           ASTM_send_acknowledgment(codec.raw))]
  /\ UNCHANGED <<db, active_connections, interfaces, handler, tasks,
                 background, lastCall, transport, session, store, log>>

\* A caller decodes the HL7 message it holds.
DecodeHL7 ==
  /\ codec.op = "" /\ codec.kind = "HL7 message"
  /\ codec' = [codec EXCEPT !.op = "HL7.process_result",
                            !.out = HL7_process_result(codec.raw)]
  /\ UNCHANGED <<db, active_connections, interfaces, handler, tasks,
                 background, lastCall, transport, session, store, log>>

\* request_results for a connected ASTM equipment on a serial port: the
\* command of _build_request_command goes through send_command_to_equipment
\* to SerialEquipment.send_command, which writes it.
RequestASTMSerial ==
  /\ codec.op = "" /\ codec.kind = "patient id"
  /\ codec' = [codec EXCEPT
                 !.op = "request_results;SerialEquipment.send_command",
                 !.out = [written |->
                            SerialEquipment_written(
                              "ASTM", ASTM_build_request_command(codec.raw))]]
  /\ UNCHANGED <<db, active_connections, interfaces, handler, tasks,
                 background, lastCall, transport, session, store, log>>

\* The processors on their own: nothing is connected, one input is held.
InitCodec ==
  /\ db \in EquipmentTables
  /\ active_connections = [e \in EquipmentIds |-> None]
  /\ interfaces = [i \in InterfaceIds |-> NoInterface]
  /\ handler = NoHandler
  /\ tasks = [t \in TaskIds |-> NoTask]
  /\ background = [b \in BgTasks |-> 0]
  /\ lastCall = NoCall
  /\ transport = [e \in EquipmentIds |-> <<>>]
  /\ session = <<>>
  /\ store = <<>>
  /\ log = <<>>
  /\ codec \in CodecInputs

NextCodec ==
  \/ DecodeASTM
  \/ AckRoundTripASTM
  \/ DecodeHL7
  \/ RequestASTMSerial

SpecCodec == InitCodec /\ [][NextCodec]_vars

\* ---------------------------------------------------------- properties
\* The listener tasks of equipment e that the event loop will still run.
LiveListeners(e) ==
  {t \in TaskIds : tasks[t].equipment = e /\ tasks[t].pc \in {"created", "backoff"}}

\* C1: a connect_equipment(E) that finds E registered fails and leaves the
\* registered interface of E in place.
C1_SecondConnectFails ==
  (lastCall.op = "connect_equipment" /\ lastCall.before # None)
    => /\ lastCall.raised # ""
       /\ active_connections[lastCall.e] = lastCall.before

\* C2: no transport is open without being the registry entry of some
\* equipment, so two connects of one id never both keep an open transport.
C2_NoUnreferencedTransport ==
  \A i \in InterfaceIds :
    interfaces[i].status = "open"
      => \E e \in EquipmentIds : active_connections[e] = i

\* C3: when the transport's connect fails, connect_equipment raises and the
\* registry entry of E is what it was before the call.
C3_FailedConnectLeavesRegistry ==
  (lastCall.op = "connect_equipment" /\ lastCall.trace = <<"connect", "failed">>)
    => /\ lastCall.raised # ""
       /\ active_connections[lastCall.e] = lastCall.before

C3_Witness ==
  /\ lastCall.op = "connect_equipment"
  /\ lastCall.trace = <<"connect", "failed">>
  /\ lastCall.before = None
  /\ active_connections[lastCall.e] = None

\* C4: disconnect_equipment never raises; without an entry it does nothing,
\* with an entry it calls the transport's disconnect, and in both cases E has
\* no entry afterwards, also when the close failed.
C4_DisconnectNeverRaises ==
  lastCall.op = "disconnect_equipment"
    => /\ lastCall.raised = ""
       /\ active_connections[lastCall.e] = None
       /\ lastCall.before = None => lastCall.trace = <<>>
       /\ lastCall.before # None
            => lastCall.trace \in {<<"disconnect", "closed">>,
                                   <<"disconnect", "close_failed">>}

C4_Witness ==
  /\ lastCall.op = "disconnect_equipment"
  /\ lastCall.before # None
  /\ lastCall.trace = <<"disconnect", "close_failed">>
  /\ active_connections[lastCall.e] = None

\* C5: send_command_to_equipment on an unregistered id raises ValueError,
\* sends and receives nothing and leaves the registry alone; on a registered
\* id a successful call sent, then received, and returns the response.
C5_SendCommand ==
  lastCall.op = "send_command_to_equipment"
    => /\ active_connections[lastCall.e] = lastCall.before
       /\ lastCall.before = None
            => lastCall.raised = "ValueError" /\ lastCall.trace = <<>>
       /\ (lastCall.before # None /\ lastCall.raised = "")
            => /\ lastCall.ret = "response"
               /\ Len(lastCall.trace) >= 2
               /\ SubSeq(lastCall.trace, Len(lastCall.trace) - 1,
                         Len(lastCall.trace)) = <<"send", "recv">>

C5_Witness ==
  /\ lastCall.op = "send_command_to_equipment"
  /\ lastCall.before = None
  /\ lastCall.raised = "ValueError"
  /\ \E e \in EquipmentIds : active_connections[e] # None

\* C6 as stated: a start_listening(E) that finds E listening raises.
C6_SecondStartFails ==
  (lastCall.op = "start_listening" /\ lastCall.listener # None)
    => lastCall.raised # ""

\* C6: on a handler that is not listening to E, start_listening(E) for a row
\* whose protocol has a result processor creates the listener task of E and
\* records it; on a handler already listening to E it logs a warning,
\* returns normally, creates no task and keeps the recorded one.
C6_StartListening ==
  (lastCall.op = "start_listening" /\ lastCall.via = "caller")
    => /\ (lastCall.listener = None /\ CreatesTask(NoListeners, lastCall.e))
            => /\ lastCall.raised = ""
               /\ lastCall.trace = <<"create_task">>
               /\ handler.active_listeners[lastCall.e] \in TaskIds
               /\ tasks[handler.active_listeners[lastCall.e]].equipment
                    = lastCall.e
       /\ lastCall.listener # None
            => /\ lastCall.raised = ""
               /\ lastCall.trace = <<"warning">>
               /\ handler.active_listeners[lastCall.e] = lastCall.listener

C6_Witness ==
  /\ lastCall.op = "start_listening"
  /\ lastCall.via = "caller"
  /\ lastCall.listener # None
  /\ lastCall.trace = <<"warning">>
  /\ handler.active_listeners[lastCall.e] = lastCall.listener

\* C7: when stop_listening(E) has returned, the listener task it stopped
\* has terminated.
C7_StopAwaitsTermination ==
  (lastCall.op = "stop_listening" /\ lastCall.listener # None)
    => tasks[lastCall.listener].pc = "done"

\* C8: when the disconnect endpoint has disconnected E, the stop_listening
\* of its request has run and no listener task of E is left to run.
C8_StopBeforeDisconnect ==
  (lastCall.op = "disconnect_equipment" /\ lastCall.via = "endpoint")
    => /\ background[<<"stop_listening", lastCall.e>>] = 0
       /\ LiveListeners(lastCall.e) = {}

\* C9: stop_listening(E) immediately followed by disconnect_equipment(E)
\* raises nothing, whatever the listener of E was doing, and every listener
\* task that ended either returned from the coroutine or was cancelled
\* before it started: no exception left a listener.
C9_TeardownRaisesNothing ==
  /\ lastCall.op = "stop_listening;disconnect_equipment"
       => /\ lastCall.raised = ""
          /\ active_connections[lastCall.e] = None
          /\ handler.active_listeners[lastCall.e] = None
  /\ \A t \in TaskIds :
       tasks[t].pc = "done" => tasks[t].exit \in {"returned", "cancelled"}

C9_Witness ==
  /\ lastCall.op = "stop_listening;disconnect_equipment"
  /\ lastCall.before # None
  /\ lastCall.listener # None
  /\ lastCall.trace = <<"cancel", "disconnect", "close_failed">>
  /\ tasks[lastCall.listener].pc = "done"
  /\ tasks[lastCall.listener].exit = "returned"

\* C10: request_results on a unidirectional equipment raises ValueError
\* without building a command or calling send_command_to_equipment, whether
\* the equipment is connected or not.
C10_UnidirectionalRequestFails ==
  (/\ lastCall.op = "request_results"
   /\ db[lastCall.e] # NoRow
   /\ db[lastCall.e].communication_type = "UNIDIRECTIONAL")
    => lastCall.raised = "ValueError" /\ lastCall.trace = <<>>

C10_Witness ==
  /\ lastCall.op = "request_results"
  /\ db[lastCall.e] # NoRow
  /\ db[lastCall.e].communication_type = "UNIDIRECTIONAL"
  /\ lastCall.before # None
  /\ lastCall.raised = "ValueError"

\* C11: connect_equipment for a row whose protocol is not HL7, ASTM or
\* HL7-FHIR raises without opening a transport and without registering one.
C11_UnsupportedProtocolFailsAtConnect ==
  (/\ lastCall.op = "connect_equipment"
   /\ db[lastCall.e] # NoRow
   /\ db[lastCall.e].protocol \notin {"HL7", "ASTM", "HL7-FHIR"})
    => /\ lastCall.raised # ""
       /\ lastCall.trace = <<>>
       /\ active_connections[lastCall.e] = lastCall.before

\* The listener the handler holds for equipment e has not ended.
ListenerAlive(e) ==
  handler.active_listeners[e] # None
    => tasks[handler.active_listeners[e]].pc
         \in {"created", "running", "polling", "backoff"}

\* The positions of the store that hold rows of message m.
StoreOf(m) == {k \in 1..Len(store) : store[k].message = m}

\* C12: a message that fails to decode, or whose acknowledgment step ran,
\* does not end the listener of its equipment: until stop_listening removes
\* it, the listener is still there to read the next message.
C12_MessageFailureNotFatal ==
  \A i \in 1..Len(log) :
    log[i].step \in {"decode_failed", "encode_ack", "http_post"}
      => ListenerAlive(log[i].equipment)

C12_Witness ==
  \E i, j \in 1..Len(log) :
    /\ i < j
    /\ log[i].step = "decode_failed"
    /\ log[j].step = "save"
    /\ log[j].equipment = log[i].equipment
    /\ ListenerAlive(log[i].equipment)
    /\ handler.active_listeners[log[i].equipment] # None

\* C13: saving a message is all or nothing: nothing stays pending in the
\* session, a message whose save failed has no row in the store and its
\* listener goes on, and a saved message has exactly its rows, in order and
\* next to each other, whatever failed after it.
C13_SaveAllOrNothing ==
  /\ session = <<>>
  /\ \A i \in 1..Len(log) :
       /\ log[i].step = "save_failed"
            => /\ StoreOf(log[i].message) = {}
               /\ ListenerAlive(log[i].equipment)
       /\ log[i].step = "save"
            => /\ Cardinality(StoreOf(log[i].message)) = log[i].lines
               /\ \E k \in 0..Len(store) :
                    SubSeq(store, k + 1, k + log[i].lines)
                      = Rows(log[i].equipment, log[i].message, log[i].lines)

C13_Witness ==
  \E i, j \in 1..Len(log) :
    /\ i < j
    /\ log[i].step = "save" /\ log[i].lines >= 1
    /\ log[j].step = "save_failed" /\ log[j].lines >= 2
    /\ store = Rows(log[i].equipment, log[i].message, log[i].lines)

\* C14: in BIDIRECTIONAL_WITH_ACK mode every saved message is followed by
\* the encoding of its acknowledgment and by the sending of it on the
\* transport; in the other modes by neither.
C14_AckSentAfterSave ==
  \A i \in 1..Len(log) :
    log[i].step = "save"
      => IF db[log[i].equipment].communication_type = "BIDIRECTIONAL_WITH_ACK"
         THEN /\ i + 2 <= Len(log)
              /\ log[i + 1].step = "encode_ack"
              /\ log[i + 1].message = log[i].message
              /\ log[i + 2].step = "send_ack"
              /\ log[i + 2].message = log[i].message
         ELSE i < Len(log)
                => log[i + 1].step \notin {"encode_ack", "send_ack"}

\* C15: a listener whose receive raises has ended once it has run, and its
\* equipment has no registry entry any more.
C15_ReceiveFailureIsFatal ==
  \A t \in TaskIds :
    (/\ tasks[t].pc \notin {"unused", "created"}
     /\ receive_data_from_equipment(tasks[t].equipment).raised # "")
      => /\ tasks[t].pc = "done"
         /\ active_connections[tasks[t].equipment] = None

\* C16: the messages of one equipment are processed in arrival order and
\* one at a time: the steps of a message are next to each other in the log,
\* the messages of an equipment appear in the order they were sent, both in
\* the log and in the store, and what is still unread was sent later.
C16_ArrivalOrder ==
  /\ \A i, j \in 1..Len(log) :
       i < j =>
         /\ log[i].message = log[j].message
              => \A k \in i..j : log[k].message = log[i].message
         /\ log[i].equipment = log[j].equipment
              => log[i].message <= log[j].message
  /\ \A i, j \in 1..Len(store) :
       i < j =>
         /\ store[i].message = store[j].message
              => \A k \in i..j : store[k].message = store[i].message
         /\ store[i].equipment = store[j].equipment
              => store[i].message <= store[j].message
  /\ \A e \in EquipmentIds, i \in 1..Len(log) :
       \A k \in 1..Len(transport[e]) :
         log[i].equipment = e => log[i].message < transport[e][k].id

C16_Witness ==
  \E i, j \in 1..Len(store) :
    /\ i < j
    /\ store[i].equipment = store[j].equipment
    /\ store[i].message < store[j].message

\* The values of the HGB example.
HGB == <<"H", "G", "B">>

V14_2 == <<"1", "4", ".", "2">>

G_DL == <<"g", "/", "d", "L">>

R12_16 == <<"1", "2", "-", "1", "6">>

\* C18: decoding the ASTM acknowledgment built for message id M gives a
\* decoded message whose message_id is M.
C18_AckRoundTrip ==
  codec.op = "ASTM.send_acknowledgment;ASTM.process_result"
    => codec.out.message_id = codec.raw

\* C19 as stated: the HGB frame decodes to patient PT002 and one result
\* with test_code HGB, value 14.2, units g/dL and status F.
C19_ScenarioStatusF ==
  (codec.op = "ASTM.process_result" /\ codec.raw = ASTM_Scenario)
    => /\ codec.out.patient_id = PT002
       /\ Len(codec.out.results) = 1
       /\ codec.out.results[1].test_code = HGB
       /\ codec.out.results[1].value = V14_2
       /\ codec.out.results[1].units = G_DL
       /\ codec.out.results[1].status = <<"F">>

\* C19, amended: the HGB frame decodes to patient PT002 and one result with
\* test_code HGB, value 14.2, units g/dL and reference range 12-16; its
\* flags and its status are empty, the F of the record being its field 7
\* while the status is read from field 8.
C19_Scenario ==
  (codec.op = "ASTM.process_result" /\ codec.raw = ASTM_Scenario)
    => /\ codec.out.raised = ""
       /\ codec.out.patient_id = PT002
       /\ codec.out.results =
            <<[test_code |-> HGB, value |-> V14_2, units |-> G_DL,
               reference_range |-> R12_16, flags |-> <<>>,
               status |-> <<>>]>>

C19_Witness ==
  /\ codec.op = "ASTM.process_result"
  /\ codec.raw = ASTM_Scenario
  /\ Len(codec.out.results) = 1

\* The values of the glucose example.
GLU == <<"G", "L", "U">>

V95 == <<"9", "5">>

MG_DL == <<"m", "g", "/", "d", "L">>

R70_110 == <<"7", "0", "-", "1", "1", "0">>

\* The segments of a message text, and the |-separated fields of one.
SegmentTexts(raw) == Split(Strip(raw, {"CR", "LF", " "}), "CR")

\* the segments of a message text that start with name|
Named(raw, name) ==
  LET segs == SegmentTexts(raw)
      Pick[i \in 0..Len(segs)] ==
        IF i = 0 THEN <<>>
        ELSE IF Len(segs[i]) > 3 /\ SubSeq(segs[i], 1, 4) = name \o <<"|">>
        THEN Append(Pick[i - 1], Split(segs[i], "|"))
        ELSE Pick[i - 1]
  IN Pick[Len(segs)]

\* A well-formed result message: the full header, a PID segment with its
\* fields up to the patient name, every OBX segment with its fields up to
\* the status.
WellFormedHL7(raw) ==
  /\ SegmentTexts(raw)[1] = HL7_MSH
  /\ Named(raw, <<"P", "I", "D">>) # <<>>
  /\ Len(Named(raw, <<"P", "I", "D">>)[1]) >= 6
  /\ \A i \in 1..Len(Named(raw, <<"O", "B", "X">>)) :
       Len(Named(raw, <<"O", "B", "X">>)[i]) >= 12

\* C17: decoding a well-formed HL7 message with a PID segment and N OBX
\* segments (N >= 0) gives exactly N results, the i-th from the i-th OBX
\* segment.
C17_OneResultPerOBX ==
  (codec.op = "HL7.process_result" /\ WellFormedHL7(codec.raw))
    => LET obx == Named(codec.raw, <<"O", "B", "X">>)
       IN /\ codec.out.raised = ""
          /\ Len(codec.out.results) = Len(obx)
          /\ \A i \in 1..Len(obx) :
               /\ codec.out.results[i].value = obx[i][6]
               /\ codec.out.results[i].units = obx[i][7]

\* C20: the glucose message decodes to patient PT001 and one result with
\* test_code GLU, value 95, units mg/dL, reference range 70-110, flags N
\* and status F.
C20_Scenario ==
  (codec.op = "HL7.process_result" /\ codec.raw = HL7_Scenario)
    => /\ codec.out.raised = ""
       /\ codec.out.patient_id = PT001
       /\ Len(codec.out.results) = 1
       /\ codec.out.results[1].test_code = GLU
       /\ codec.out.results[1].value = V95
       /\ codec.out.results[1].units = MG_DL
       /\ codec.out.results[1].reference_range = R70_110
       /\ codec.out.results[1].flags = <<"N">>
       /\ codec.out.results[1].status = <<"F">>

\* C21: a message with several OBX segments of which one lacks an expected
\* field is not failed as a whole: process_result returns one ResultLine
\* per OBX segment.
C21_PerFieldDegradation ==
  LET obx == Named(codec.raw, <<"O", "B", "X">>)
  IN (/\ codec.op = "HL7.process_result"
      /\ SegmentTexts(codec.raw)[1] = HL7_MSH
      /\ Named(codec.raw, <<"P", "I", "D">>) # <<>>
      /\ Len(Named(codec.raw, <<"P", "I", "D">>)[1]) >= 6
      /\ Len(obx) >= 2
      /\ \E i \in 1..Len(obx) : Len(obx[i]) < 12)
       => /\ codec.out.raised = ""
          /\ Len(codec.out.results) = Len(obx)

\* the records of an ASTM frame that start with the letter R, in order
RRecords(raw) ==
  LET records == Split(Strip(raw, {"STX", "ETX", "CR", "LF"}), "CR")
      Pick[i \in 0..Len(records)] ==
        IF i = 0 THEN <<>>
        ELSE IF records[i] # <<>> /\ records[i][1] = "R"
        THEN Append(Pick[i - 1], Split(records[i], "|"))
        ELSE Pick[i - 1]
  IN Pick[Len(records)]

\* C22: decoding an ASTM frame of H, P, R and other records of any length
\* raises nothing and returns one ResultLine per R record, in record order;
\* a field whose index is beyond the record's length is the empty string.
C22_ShortRecords ==
  codec.op = "ASTM.process_result"
    => LET rs == RRecords(codec.raw)
       IN /\ codec.out.raised = ""
          /\ Len(codec.out.results) = Len(rs)
          /\ \A i \in 1..Len(rs) :
               LET f == rs[i]
                   r == codec.out.results[i]
               IN /\ r.test_code = (IF Len(f) > 2 THEN f[3] ELSE <<>>)
                  /\ r.value = (IF Len(f) > 3 THEN f[4] ELSE <<>>)
                  /\ r.units = (IF Len(f) > 4 THEN f[5] ELSE <<>>)
                  /\ r.reference_range = (IF Len(f) > 5 THEN f[6] ELSE <<>>)
                  /\ r.flags = (IF Len(f) > 6 THEN f[7] ELSE <<>>)
                  /\ r.status = (IF Len(f) > 8 THEN f[9] ELSE <<>>)

C22_Witness ==
  /\ codec.op = "ASTM.process_result"
  /\ codec.raw = ASTM_frame(<<ASTM_R_bare, ASTM_C, ASTM_R_long>>)
  /\ codec.out.raised = ""
  /\ Len(codec.out.results) = 2
  /\ codec.out.results[1].test_code = <<>>
  /\ codec.out.results[2].status = <<"F">>

\* C23: once the cancellation of a listener is requested, the next thing
\* the listener does is to end, and an ended listener does nothing more:
\* it performs no receive, no save and no acknowledgment step.
C23_CancelledLoopStops ==
  [][\A t \in TaskIds :
       ((tasks[t].cancel \/ tasks[t].pc = "done") /\ tasks'[t] # tasks[t])
         => /\ tasks'[t].pc = "done"
            /\ log' = log
            /\ store' = store
            /\ session' = session
            /\ transport' = transport]_vars

\* a listener that had processed a message was cancelled in its sleep and
\* has ended while a message of its equipment is still unread
C23_Witness ==
  \E t \in TaskIds :
    /\ tasks[t].pc = "done"
    /\ tasks[t].exit = "returned"
    /\ transport[tasks[t].equipment] # <<>>
    /\ \E i \in 1..Len(log) : log[i].equipment = tasks[t].equipment

\* C24: a listener whose receive finds nothing to read (or fails) ends the
\* pass suspended in a sleep; it is never left running towards the next
\* receive without a suspension point.
C24_EmptyReceiveSuspends ==
  [][\A t \in TaskIds :
       (/\ tasks[t].pc \in {"created", "polling", "backoff"}
        /\ ~tasks[t].cancel /\ ~tasks'[t].cancel
        /\ tasks'[t] # tasks[t]
        /\ transport[tasks[t].equipment] = <<>>)
         => tasks'[t].pc \in {"polling", "backoff"}]_vars

\* message m is the oldest unread message of a connected equipment that
\* has a listener, and its codec can decode it
Available(m) ==
  \E e \in EquipmentIds :
    /\ active_connections[e] # None
    /\ handler.active_listeners[e] # None
    /\ transport[e] # <<>>
    /\ Head(transport[e]).id = m
    /\ Head(transport[e]).wellformed

\* message m was decoded and its rows were committed
Ingested(m) ==
  \E i \in 1..Len(log) : log[i].message = m /\ log[i].step = "save"

\* C25: every well-formed message that the transport of a connected,
\* listening equipment makes available is eventually decoded and committed.
C25_EventuallyIngested ==
  \A m \in 1..MaxMessages : Available(m) ~> Ingested(m)

\* The listener loops of equipment e that go on: the tasks that have not
\* ended and have no cancellation to meet.
RunningListeners(e) ==
  {t \in TaskIds : /\ tasks[t].equipment = e
                   /\ tasks[t].pc \in {"created", "backoff"}
                   /\ ~tasks[t].cancel}

\* C26: when every listener was started by the connect endpoint, and the
\* background stop_listening of the disconnect endpoint for E has run with E
\* out of the registry, no listener loop of E goes on.
C26_NoListenerAfterDisconnect ==
  (/\ ~handler.constructed
   /\ lastCall.op = "stop_listening" /\ lastCall.via = "background"
   /\ active_connections[lastCall.e] = None)
    => RunningListeners(lastCall.e) = {}

\* C27: when every listener was started by the connect endpoint, at most
\* one listener loop per equipment id goes on.
C27_OneListenerPerEquipment ==
  ~handler.constructed
    => \A e \in EquipmentIds : Cardinality(RunningListeners(e)) <= 1

\* the steps that produce an acknowledgment
AckSteps == {"encode_ack", "http_post", "send_ack"}

\* C28: an acknowledgment step of a message happens only in
\* BIDIRECTIONAL_WITH_ACK mode and only after the save of that message, with
\* all its rows committed; a message whose decoding or save failed has no
\* acknowledgment step.
C28_AckOnlyAfterCommit ==
  \A j \in 1..Len(log) :
    log[j].step \in AckSteps
      => /\ db[log[j].equipment].communication_type = "BIDIRECTIONAL_WITH_ACK"
         /\ \E i \in 1..(j - 1) :
              log[i].step = "save" /\ log[i].message = log[j].message
         /\ Cardinality(StoreOf(log[j].message)) = log[j].lines
         /\ \A k \in 1..Len(log) :
              log[k].message = log[j].message
                => log[k].step \notin {"decode_failed", "save_failed"}

\* in acknowledging mode one message with rows was saved and acknowledged
\* and the save of another failed
C28_Witness ==
  \E j, k \in 1..Len(log) :
    /\ log[j].step \in AckSteps /\ log[j].lines >= 1
    /\ log[k].step = "save_failed"
    /\ db[log[k].equipment].communication_type = "BIDIRECTIONAL_WITH_ACK"

\* C29: request_results on an existing equipment that is not unidirectional
\* raises nothing; it returns True only when the command was built and handed
\* to send_command_to_equipment, and False only when the equipment is not
\* connected, its protocol is not HL7, ASTM or HL7-FHIR, or the transport
\* was tried and failed.
C29_RequestResultsOutcome ==
  (/\ lastCall.op = "request_results"
   /\ db[lastCall.e] # NoRow
   /\ db[lastCall.e].communication_type # "UNIDIRECTIONAL")
    => /\ lastCall.raised = ""
       /\ lastCall.ret \in {"True", "False"}
       /\ lastCall.ret = "True"
            => /\ db[lastCall.e].protocol \in {"HL7", "ASTM", "HL7-FHIR"}
               /\ lastCall.before # None
               /\ Len(lastCall.trace) > 2
       /\ lastCall.ret = "False"
            => \/ lastCall.before = None
               \/ db[lastCall.e].protocol \notin {"HL7", "ASTM", "HL7-FHIR"}
               \/ Len(lastCall.trace) > 2

\* the number of positions of a text that hold the character
Count(text, ch) == Cardinality({i \in 1..Len(text) : text[i] = ch})

\* C30: the ASTM request that request_results writes to a serial port has
\* one STX, at its start, and one ETX, followed by CR LF at its end.
C30_FramedOnce ==
  codec.op = "request_results;SerialEquipment.send_command"
    => LET w == codec.out.written
       IN /\ Len(w) >= 4
          /\ w[1] = "STX"
          /\ Count(w, "STX") = 1
          /\ Count(w, "ETX") = 1
          /\ SubSeq(w, Len(w) - 2, Len(w)) = <<"ETX", "CR", "LF">>

====
